---- MODULE Spec2Model ----
(***************************************************************************)
(* Trend relevance ranking of CONTEXIA_AI: TrendVectorStore.search over    *)
(* the TrendArticle table (apps/trends), the recency step function, the    *)
(* similarity transform, generate_embedding with its two providers, the    *)
(* scrape_source ingestion task and add_article_to_vectorstore; and, of    *)
(* the callers and neighbours of the trend store, the content generation   *)
(* task generate_content_async, the publishing tasks of apps/social and    *)
(* RateLimitMiddleware.                                                    *)
(***************************************************************************)
EXTENDS Integers, Sequences, FiniteSets, TLC

\* None (a NULL column, an absent value) and a present value
None == <<>>

Some(v) == <<v>>

Min(a, b) == IF a <= b THEN a ELSE b

Abs(a) == IF a < 0 THEN 0 - a ELSE a

(***************************************************************************)
(* Python floats.  A float is <<m, e>>, of value m * 2^e, with m = 0 or    *)
(* 2^(MantBits-1) <= m < 2^MantBits: binary floating point with round to   *)
(* nearest, ties to even, as IEEE 754 binary64 has it, at a mantissa of    *)
(* MantBits bits instead of 53.  The exponent is not bounded: the values   *)
(* search computes lie between 2^-1074 and 2^1023 in binary64 too.         *)
(***************************************************************************)
MantBits == 8

RECURSIVE FNorm(_, _, _)
\* the float nearest to (n / d) * 2^e, for n >= 0 and d > 0
FNorm(n, d, e) ==
    IF n = 0 THEN <<0, 0>>
    ELSE IF n < d * 2^(MantBits - 1) THEN FNorm(2 * n, d, e - 1)
    ELSE IF n >= d * 2^MantBits THEN FNorm(n, 2 * d, e + 1)
    ELSE LET q == n \div d
             r == n % d
             m == IF 2 * r > d \/ (2 * r = d /\ q % 2 = 1) THEN q + 1 ELSE q
         IN  IF m = 2^MantBits THEN <<2^(MantBits - 1), e + 1>> ELSE <<m, e>>

\* a decimal literal or an exact quotient of two integers, as a float
Float(n, d) == FNorm(n, d, 0)

FAdd(a, b) ==
    LET e0 == Min(a[2], b[2])
    IN  FNorm(a[1] * 2^(a[2] - e0) + b[1] * 2^(b[2] - e0), 1, e0)

FMul(a, b) == FNorm(a[1] * b[1], 1, a[2] + b[2])

FDiv(a, b) == FNorm(a[1], b[1], a[2] - b[2])

FLess(a, b) ==
    LET e0 == Min(a[2], b[2])
    IN  a[1] * 2^(a[2] - e0) < b[1] * 2^(b[2] - e0)

FLeq(a, b) == a = b \/ FLess(a, b)

One == Float(1, 1)

(***************************************************************************)
(* Time is counted in ticks, TicksPerDay of them to a day, so that an age  *)
(* need not be a whole number of days.                                      *)
(***************************************************************************)
TicksPerDay == 2

\* timedelta.days: whole days, rounded towards minus infinity
timedelta_days(delta) == delta \div TicksPerDay

recency_factor_no_floor(published_date, t) ==
    IF published_date = None THEN Float(5, 10)
    ELSE LET age == t - published_date[1]
         IN  IF age <= 7 * TicksPerDay THEN Float(1, 1)
             ELSE IF age <= 30 * TicksPerDay THEN Float(8, 10)
             ELSE IF age <= 90 * TicksPerDay THEN Float(6, 10)
             ELSE IF age <= 180 * TicksPerDay THEN Float(4, 10)
             ELSE Float(2, 10)

\* TrendArticle.recency_factor, with timezone.now() = t
recency_factor(published_date, t) ==
    IF published_date = None THEN Float(5, 10)
    ELSE LET days_old == timedelta_days(t - published_date[1])
         IN  IF days_old <= 7 THEN Float(1, 1)
             ELSE IF days_old <= 30 THEN Float(8, 10)
             ELSE IF days_old <= 90 THEN Float(6, 10)
             ELSE IF days_old <= 180 THEN Float(4, 10)
             ELSE Float(2, 10)

similarity_increasing(dist_val) == FDiv(dist_val, FAdd(One, dist_val))

\* similarity = 1 / (1 + float(dist_val))
similarity(dist_val) == FDiv(One, FAdd(One, dist_val))

viral_score_similarity_only(sim, recency) == sim

\* viral_score = (similarity * 0.7) + (art.recency_factor * 0.3)
viral_score(sim, recency) ==
    FAdd(FMul(sim, Float(7, 10)), FMul(recency, Float(3, 10)))

(***************************************************************************)
(* Embeddings.  A vector is [dim, at]: its number of dimensions and its    *)
(* position, in hundredths, on one line of the embedding space, on which   *)
(* the Euclidean distance of two vectors is the difference of positions.   *)
(* [] (Python's empty list) has dim = 0.                                    *)
(***************************************************************************)
\* TrendArticle.embedding = VectorField(dimensions=384, null=True)
StoreDim == 384

\* get_embeddings_openai: dimensions=3072
ProviderDim == 3072

Vec(dim, at) == [dim |-> dim, at |-> at]

EmptyVec == Vec(0, 0)

\* the provider's answers to get_embeddings([safe_text]): it raises, it
\* returns no vector, or it returns one vector
ProviderRaises == [kind |-> "raise", vec |-> EmptyVec]

ProviderNoVector == [kind |-> "vectors", vec |-> EmptyVec]

ProviderVector(v) == [kind |-> "vectors", vec |-> v]

generate_embedding_except_reraise == [outcome |-> "raised", value |-> EmptyVec]

\* "except Exception as e: logger.error(...); return []"
generate_embedding_except == [outcome |-> "returned", value |-> EmptyVec]

\* TrendVectorStore.generate_embedding: the list it returns, resp being what
\* ai_wrapper.get_embeddings([safe_text]) did
generate_embedding(resp) ==
    IF resp.kind = "raise" THEN generate_embedding_except.value
    ELSE IF resp.vec.dim > 0 THEN resp.vec
    ELSE EmptyVec

\* safe_text = text[:8000]
SafeTextLimit == 8000

safe_text_suffix(text) ==
    SubSeq(text, Len(text) - Min(SafeTextLimit, Len(text)) + 1, Len(text))

safe_text(text) == SubSeq(text, 1, Min(SafeTextLimit, Len(text)))

\* the position of the vector the remote model computes for a text: a text
\* is a sequence of numbers, and the model is a function of the text, one to
\* one on the texts of up to three numbers below 10
TextPosition(text) ==
    LET RECURSIVE Digits(_)
        Digits(s) == IF s = <<>> THEN 0 ELSE 10 * Digits(Tail(s)) + Head(s)
    IN  Digits(SubSeq(text, 1, Min(3, Len(text))))

\* AI_PROVIDER = os.getenv('AI_PROVIDER', 'openai').lower()
AI_PROVIDERS == {"openai", "gemini"}

\* what the remote embedding API does with a request: it fails (transport,
\* rate limit, malformed response), it answers without a vector, it answers
\* with a vector of the length get_embeddings_openai asks for, or with one of
\* the length of the column
ApiOutcomes == {"error", "empty", "provider_dim", "store_dim"}

ApiVector(api, text) ==
    Vec(IF api = "provider_dim" THEN ProviderDim ELSE StoreDim, TextPosition(text))

\* get_embeddings_openai(texts): "except Exception: return []"
get_embeddings_openai(api, text) ==
    IF api = "error" THEN ProviderNoVector
    ELSE IF api = "empty" THEN ProviderNoVector
    ELSE ProviderVector(ApiVector(api, text))

\* ai_wrapper.get_embeddings(texts): the Gemini branch logs and re-raises
get_embeddings(provider, api, text) ==
    IF provider = "openai" THEN get_embeddings_openai(api, text)
    ELSE IF api = "error" THEN ProviderRaises
    ELSE IF api = "empty" THEN ProviderNoVector
    ELSE ProviderVector(ApiVector(api, text))

\* one call generate_embedding(text): the text sent to the provider, how the
\* call ended and the list returned
generate_embedding_call(text, provider, api) ==
    LET resp == get_embeddings(provider, api, safe_text(text))
    IN  [text |-> text, provider |-> provider, api |-> api,
         sent |-> safe_text(text),
         outcome |-> IF resp.kind = "raise" THEN generate_embedding_except.outcome
                     ELSE "returned",
         value |-> generate_embedding(resp)]

embedding_missing_never(query_embedding) == FALSE

\* "if not query_embedding"
embedding_missing(query_embedding) == query_embedding.dim = 0

\* pgvector's L2Distance('embedding', query_embedding) of one row: NULL for a
\* row whose embedding is NULL
L2Distance(embedding, query_embedding) ==
    IF embedding = None THEN None
    ELSE Float(Abs(embedding[1].at - query_embedding.at), 100)

\* ORDER BY distance ASC of PostgreSQL: NULL sorts last
OrderedBefore(d1, d2) == d1 # None /\ (d2 = None \/ FLess(d1, d2))

RECURSIVE OrderBy(_, _)
\* every order of the rows ids that ORDER BY dist may produce: rows that tie
\* come in any order
OrderBy(ids, dist) ==
    IF ids = {} THEN {<<>>}
    ELSE UNION {{<<i>> \o s : s \in OrderBy(ids \ {i}, dist)} :
                i \in {j \in ids : \A h \in ids : ~OrderedBefore(dist[h], dist[j])}}

\* the rows the query reads: all of them on a sequential scan, the indexed
\* ones (HnswIndex on embedding holds no NULL) on an index scan
ScannedRows(st, planner) ==
    IF planner = "seqscan" THEN DOMAIN st
    ELSE {i \in DOMAIN st : st[i].embedding # None}

\* the query set raises when it is evaluated: a negative slice bound, or
\* vectors of different dimensions compared
QueryRaises(st, query_embedding, k) ==
    \/ k < 0
    \/ /\ k > 0
       /\ query_embedding.dim # StoreDim
       /\ \E i \in DOMAIN st : st[i].embedding # None

Slice(s, n) == SubSeq(s, 1, Min(n, Len(s)))

\* TrendArticle.objects.annotate(distance=L2Distance(...)).order_by('distance')[:k*2]
\* the possible results, each a sequence of [id, distance]
nearest(st, query_embedding, k, planner) ==
    LET dist == [i \in DOMAIN st |-> L2Distance(st[i].embedding, query_embedding)]
    IN  {[n \in 1..Min(k * 2, Len(s)) |-> [id |-> s[n], distance |-> dist[s[n]]]] :
         s \in OrderBy(ScannedRows(st, planner), dist)}

SOURCE_CHOICES ==
    [sprout_social |-> "Sprout Social Insights",
     later |-> "Later Blog",
     social_media_examiner |-> "Social Media Examiner"]

\* the body of the loop "for art in articles" of search
Scored(art, distance, t) ==
    LET dist_val == IF distance # None THEN distance ELSE One
        sim == similarity(dist_val)
    IN  [title |-> art.title,
         url |-> art.url,
         source |-> SOURCE_CHOICES[art.source],
         snippet |-> art.snippet,
         viral_score |-> viral_score(sim, recency_factor(art.published_date, t)),
         similarity |-> sim]

RECURSIVE InsertAscending(_, _)
InsertAscending(acc, r) ==
    IF acc = <<>> THEN <<r>>
    ELSE IF FLess(r.viral_score, Head(acc).viral_score) THEN <<r>> \o acc
    ELSE <<Head(acc)>> \o InsertAscending(Tail(acc), r)

RECURSIVE InsertDescending(_, _)
\* r put behind every element whose viral_score is not smaller
InsertDescending(acc, r) ==
    IF acc = <<>> THEN <<r>>
    ELSE IF FLess(Head(acc).viral_score, r.viral_score) THEN <<r>> \o acc
    ELSE <<Head(acc)>> \o InsertDescending(Tail(acc), r)

RECURSIVE sorted_ascending(_)
sorted_ascending(results) ==
    IF results = <<>> THEN <<>>
    ELSE InsertAscending(sorted_ascending(SubSeq(results, 1, Len(results) - 1)),
                         results[Len(results)])

\* sorted(results, key=...)[::-1]: equal elements end in reverse order
sorted_then_reversed(results) ==
    LET asc == sorted_ascending(results)
    IN  [n \in 1..Len(asc) |-> asc[Len(asc) + 1 - n]]

RECURSIVE sorted_reverse(_)
\* sorted(results, key=lambda x: x['viral_score'], reverse=True): stable
sorted_reverse(results) ==
    IF results = <<>> THEN <<>>
    ELSE InsertDescending(sorted_reverse(SubSeq(results, 1, Len(results) - 1)),
                          results[Len(results)])

top_k_untruncated(ranked, k) == ranked

\* [-k:]
top_k_tail(ranked, k) ==
    SubSeq(ranked, Len(ranked) - Min(k, Len(ranked)) + 1, Len(ranked))

\* [:k]
top_k(ranked, k) == Slice(ranked, k)

\* what the database may answer when the query set is evaluated: an error
\* (the query raises, or the connection fails), or the rows of one of the
\* plans
DbError == [raise |-> TRUE, rows |-> <<>>]

DbAnswers(st, query_embedding, k) ==
    {DbError} \cup
    (IF QueryRaises(st, query_embedding, k) THEN {}
     ELSE {[raise |-> FALSE, rows |-> r] :
           r \in nearest(st, query_embedding, k, "seqscan")
                 \cup nearest(st, query_embedding, k, "indexscan")})

search_except_reraise == [outcome |-> "raised", result |-> <<>>]

\* "except Exception as e: ... return []"
search_except == [outcome |-> "returned", result |-> <<>>]

\* TrendVectorStore.search(query, k) at time t: resp is the provider's answer
\* for the query text, db the database's answer when the query set is
\* evaluated (by "for art in articles", inside the try block)
search(st, t, resp, k, db) ==
    LET query_embedding == generate_embedding(resp)
        base == [pc |-> "returned", k |-> k, t |-> t,
                 query_embedding |-> query_embedding,
                 queried |-> FALSE, rows |-> <<>>, raised |-> "none",
                 outcome |-> "returned", result |-> <<>>]
    IN  IF embedding_missing(query_embedding) THEN base
        ELSE IF db.raise
        THEN [base EXCEPT !.queried = TRUE, !.raised = "store",
                          !.outcome = search_except.outcome,
                          !.result = search_except.result]
        ELSE LET results == [n \in 1..Len(db.rows) |->
                                Scored(st[db.rows[n].id], db.rows[n].distance, t)]
             IN  [base EXCEPT !.queried = TRUE, !.rows = db.rows,
                              !.result = top_k(sorted_reverse(results), k)]

\* get_trend_snippets(topic, k) = TrendVectorStore().search(topic, k)
get_trend_snippets(st, t, resp, k, db) == search(st, t, resp, k, db)

(***************************************************************************)
(* The state: the TrendArticle table, the clock, the search call in        *)
(* progress, the ScraperJob table, the runs of scrape_source that ended    *)
(* (with what the scraped site had to offer to each), and the arguments    *)
(* and result of a pure function under test; then the state of the         *)
(* generator, of publishing and of the rate limiter.                       *)
(***************************************************************************)
VARIABLES store, now, call, jobs, runs, probe,
          contents, posts, celery, procs, sent,
          cache, reqs, admitted, time

\* the trend store and its callers
trendVars == <<store, now, call, jobs, runs, probe>>

\* the GeneratedContent table
generatorVars == <<contents>>

\* the ScheduledPost table, the Celery broker, the tasks in progress and what
\* the platform publishers were asked to send
socialVars == <<posts, celery, procs, sent>>

\* the cache of RateLimitMiddleware, the requests in progress, the requests
\* passed to the view, and time.time()
limiterVars == <<cache, reqs, admitted, time>>

vars == <<trendVars, generatorVars, socialVars, limiterVars>>

\* nothing generated, no post scheduled, no request received
InitElsewhere ==
    /\ contents = <<>>
    /\ posts = <<>>
    /\ celery = <<>>
    /\ procs = <<>>
    /\ sent = <<>>
    /\ cache = <<>>
    /\ reqs = <<>>
    /\ admitted = <<>>
    /\ time = 0

MaxArticles == 3

MaxK == 3

MaxClockSteps == 1

\* the clock at the start, late enough for an article to be 200 days old
Epoch == 200 * TicksPerDay

\* three and a half days
ClockStep == 3 * TicksPerDay + TicksPerDay \div 2

Today == Some(Epoch)

DaysAgo(n) == Some(Epoch - n * TicksPerDay)

At(c) == Some(Vec(StoreDim, c))

\* the contents of the stored articles, <<embedding, published_date>>: near
\* and old, nearer and older, far and fresh, without an embedding, without a
\* date
ArticleKinds ==
    {<<At(10), Today>>, <<At(5), DaysAgo(200)>>, <<At(30), DaysAgo(5)>>,
     <<At(10), DaysAgo(200)>>, <<At(30), None>>,
     <<None, Today>>, <<None, None>>}

\* positions of the query vectors
QueryChoices == {0, 20}

Sources == <<"sprout_social", "later", "social_media_examiner">>

\* a stored article; full_text is <<its first 1000 characters, the rest>>
Article(i, emb, pub) ==
    [url |-> i, source |-> Sources[(i % 3) + 1], title |-> i, snippet |-> i,
     full_text |-> <<i, i>>, published_date |-> pub, updated_at |-> Epoch,
     embedding |-> emb]

\* a total order of the contents of an article, to list each table once
ContentKey(a) ==
    (IF a.embedding = None THEN 0 ELSE a.embedding[1].at) * (Epoch + 2)
    + (IF a.published_date = None THEN 0 ELSE a.published_date[1] + 1)

\* the tables of up to MaxArticles rows with distinct urls; the rows of a
\* table are listed by ContentKey, the order of rows being of no effect
Stores ==
    UNION {{st \in {[i \in 1..n |-> Article(i, c[i][1], c[i][2])] :
                     c \in [1..n -> ArticleKinds]} :
              \A i \in 1..(n - 1) : ContentKey(st[i]) <= ContentKey(st[i + 1])} :
           n \in 0..MaxArticles}

Idle == [pc |-> "idle"]

NoProbe == [fn |-> "none"]

Ks == (0 - 1)..MaxK

ProviderResponses ==
    {ProviderRaises, ProviderNoVector, ProviderVector(Vec(ProviderDim, 0))}
    \cup {ProviderVector(Vec(StoreDim, at)) : at \in QueryChoices}

Init ==
    /\ store \in Stores
    /\ now = Epoch
    /\ call = Idle
    /\ jobs = <<>>
    /\ runs = <<>>
    /\ probe = NoProbe
    /\ InitElsewhere

\* a search that saves every article it scores (updated_at is auto_now)
GetTrendSnippets_saving ==
    /\ call.pc = "idle"
    /\ \E resp \in ProviderResponses, k \in Ks :
         LET q == generate_embedding(resp)
         IN  \E db \in (IF q.dim = 0 THEN {DbError} ELSE DbAnswers(store, q, k)) :
               /\ call' = get_trend_snippets(store, now, resp, k, db)
               /\ store' = [i \in DOMAIN store |->
                               IF \E n \in DOMAIN db.rows : db.rows[n].id = i
                               THEN [store[i] EXCEPT !.updated_at = now]
                               ELSE store[i]]
    /\ UNCHANGED <<now, jobs, runs, probe>>
    /\ UNCHANGED <<generatorVars, socialVars, limiterVars>>

\* a caller (generate_content_async, the API view) asks for trend snippets
GetTrendSnippets ==
    /\ call.pc = "idle"
    /\ \E resp \in ProviderResponses, k \in Ks :
         LET q == generate_embedding(resp)
         IN  \E db \in (IF q.dim = 0 THEN {DbError} ELSE DbAnswers(store, q, k)) :
               call' = get_trend_snippets(store, now, resp, k, db)
    /\ UNCHANGED <<store, now, jobs, runs, probe>>
    /\ UNCHANGED <<generatorVars, socialVars, limiterVars>>

\* the caller takes the result
Return ==
    /\ call.pc = "returned"
    /\ call' = Idle
    /\ UNCHANGED <<store, now, jobs, runs, probe>>
    /\ UNCHANGED <<generatorVars, socialVars, limiterVars>>

\* time passes
Tick ==
    /\ call.pc = "idle"
    /\ now < Epoch + MaxClockSteps * ClockStep
    /\ now' = now + ClockStep
    /\ UNCHANGED <<store, call, jobs, runs, probe>>
    /\ UNCHANGED <<generatorVars, socialVars, limiterVars>>

Next == GetTrendSnippets \/ Return \/ Tick

Spec == Init /\ [][Next]_vars

(***************************************************************************)
(* Properties of search                                                    *)
(***************************************************************************)
Returned == call.pc = "returned"

\* the stored article a snippet was made from
ArticleOf(snip) == CHOOSE i \in DOMAIN store : store[i].url = snip.url

NumArticles == Len(store)

NumUnembedded == Cardinality({i \in DOMAIN store : store[i].embedding = None})

\* C1: search / get_trend_snippets never propagates an exception: every call
\* returns a list, and the list is empty when the embedding provider gave no
\* vector or the store query failed.
C1_NeverRaises ==
    Returned =>
        /\ call.outcome = "returned"
        /\ DOMAIN call.result = 1..Len(call.result)
        /\ (call.raised # "none" \/ call.query_embedding.dim = 0) => call.result = <<>>

C1_Witness ==
    /\ Returned
    /\ call.raised = "store"
    /\ call.query_embedding.dim = StoreDim
    /\ call.k > 0
    /\ NumArticles > NumUnembedded

\* C2: when the provider yields an empty vector, search returns [] at once:
\* the article store is not queried and nothing is raised.
C2_EmptyEmbeddingReturnsEmpty ==
    (Returned /\ call.query_embedding.dim = 0) =>
        /\ ~call.queried
        /\ call.result = <<>>
        /\ call.outcome = "returned"
        /\ call.raised = "none"

C2_Witness ==
    /\ Returned
    /\ call.query_embedding.dim = 0
    /\ call.k > 0
    /\ NumArticles > NumUnembedded

\* C3 (as claimed): the nearest-neighbour step yields at most N - M rows, and
\* no article without an embedding is among the rows or the snippets.
C3_NullEmbeddingExcluded ==
    Returned =>
        /\ Len(call.rows) <= NumArticles - NumUnembedded
        /\ \A n \in DOMAIN call.rows : store[call.rows[n].id].embedding # None
        /\ \A n \in DOMAIN call.result :
              store[ArticleOf(call.result[n])].embedding # None

\* C4: with a query vector and no failure of the store, search returns
\* min(k, candidates) snippets, never more than k; the candidates are the
\* first 2k rows the scan of the table supplies.
C4_TopKLength ==
    (Returned /\ call.query_embedding.dim # 0 /\ call.raised = "none") =>
        /\ Len(call.result) = Min(call.k, Len(call.rows))
        /\ Len(call.result) <= call.k
        /\ Len(call.rows) \in {Min(2 * call.k, NumArticles),
                               Min(2 * call.k, NumArticles - NumUnembedded)}

C4_Witness ==
    /\ Returned
    /\ call.raised = "none"
    /\ call.k > 0
    /\ Len(call.rows) > call.k
    /\ Len(call.result) = call.k

\* C5: every returned list is sorted by viral_score, descending.
C5_SortedDescending ==
    Returned =>
        \A n \in 1..(Len(call.result) - 1) :
            ~FLess(call.result[n].viral_score, call.result[n + 1].viral_score)

\* a list of two or more that the sort reordered
C5_Witness ==
    /\ Returned
    /\ Len(call.result) >= 2
    /\ FLess(call.result[2].viral_score, call.result[1].viral_score)
    /\ call.rows[1].id # ArticleOf(call.result[1])

\* C6 (as claimed): every snippet's viral_score is similarity * 0.7 +
\* recency * 0.3, with similarity = 1 / (1 + the article's L2 distance to the
\* query vector) and recency the article's recency_factor at query time.
C6_ViralScoreFormula ==
    Returned =>
        \A n \in DOMAIN call.result :
            LET art == store[ArticleOf(call.result[n])]
                distance == L2Distance(art.embedding, call.query_embedding)
            IN  /\ distance # None
                /\ call.result[n].similarity = FDiv(One, FAdd(One, distance))
                /\ call.result[n].viral_score =
                      FAdd(FMul(call.result[n].similarity, Float(7, 10)),
                           FMul(recency_factor(art.published_date, call.t), Float(3, 10)))

\* the scenario of C9: exactly A (distance 0.1, published today), B (0.05,
\* 200 days ago) and C (0.3, 5 days ago), queried with k >= 3
KindOf(i) == <<store[i].embedding, store[i].published_date>>

ScenarioA == <<At(10), Today>>

ScenarioB == <<At(5), DaysAgo(200)>>

ScenarioC == <<At(30), DaysAgo(5)>>

C9_Scenario ==
    /\ Returned
    /\ call.raised = "none"
    /\ call.k >= 3
    /\ call.t = Epoch
    /\ call.query_embedding = Vec(StoreDim, 0)
    /\ NumArticles = 3
    /\ {KindOf(i) : i \in DOMAIN store} = {ScenarioA, ScenarioB, ScenarioC}
    /\ \A n \in DOMAIN call.rows :
          call.rows[n].distance =
              (CASE KindOf(call.rows[n].id) = ScenarioA -> Float(1, 10)
                 [] KindOf(call.rows[n].id) = ScenarioB -> Float(5, 100)
                 [] KindOf(call.rows[n].id) = ScenarioC -> Float(3, 10))

\* C9: in the scenario search returns the three articles in the order A, C, B.
C9_RankOrder ==
    C9_Scenario =>
        /\ Len(call.result) = 3
        /\ KindOf(ArticleOf(call.result[1])) = ScenarioA
        /\ KindOf(ArticleOf(call.result[2])) = ScenarioC
        /\ KindOf(ArticleOf(call.result[3])) = ScenarioB

C9_Witness == C9_Scenario /\ Len(call.rows) = 3

\* the search went through: a query vector, and the query set evaluated
Searched == Returned /\ call.queried /\ call.raised = "none"

\* the articles of the returned snippets
ReturnedArticles == {ArticleOf(call.result[n]) : n \in DOMAIN call.result}

\* the viral_score of stored article i for the query of the call
ScoreOf(i) ==
    Scored(store[i], L2Distance(store[i].embedding, call.query_embedding),
           call.t).viral_score

\* the embedded articles with fewer than n embedded articles strictly closer
\* to the query vector
NearestArticles(n) ==
    LET emb == {i \in DOMAIN store : store[i].embedding # None}
        d(i) == L2Distance(store[i].embedding, call.query_embedding)
    IN  {i \in emb : Cardinality({j \in emb : FLess(d(j), d(i))}) < n}

\* C18 (as claimed): the candidates are the 2k stored articles closest to the
\* query vector, in ascending order of distance, and every returned snippet
\* is of one of them.
C18_CandidatesAreNearest ==
    Searched =>
        /\ \A n \in DOMAIN call.rows :
              /\ call.rows[n].id \in NearestArticles(2 * call.k)
              /\ call.rows[n].distance # None
              /\ \A m \in 1..(n - 1) :
                    /\ call.rows[m].distance # None
                    /\ ~FLess(call.rows[n].distance, call.rows[m].distance)
        /\ ReturnedArticles \subseteq NearestArticles(2 * call.k)

\* C19 (as claimed), on tables where every article has an embedding: no
\* article left out of the result scores strictly higher than a returned one,
\* and fewer than k are returned only when the table holds no more.
C19_BestOfStore ==
    (Searched /\ NumUnembedded = 0) =>
        /\ Len(call.result) = Min(call.k, NumArticles)
        /\ \A i \in DOMAIN store \ ReturnedArticles :
              \A n \in DOMAIN call.result :
                  ~FLess(call.result[n].viral_score, ScoreOf(i))

\* C19 (amended): the result is the best k of the candidates fetched: no
\* fetched candidate left out of the result scores strictly higher than a
\* returned one, and fewer than k are returned only when no more were fetched.
C19_BestOfCandidates ==
    Searched =>
        /\ Len(call.result) = Min(call.k, Len(call.rows))
        /\ \A m \in DOMAIN call.rows :
              call.rows[m].id \notin ReturnedArticles =>
                  \A n \in DOMAIN call.result :
                      ~FLess(call.result[n].viral_score,
                             Scored(store[call.rows[m].id], call.rows[m].distance,
                                    call.t).viral_score)

\* a candidate was left out, and an article that was not fetched scores
\* higher than a returned one
C19_Witness ==
    /\ Searched
    /\ NumUnembedded = 0
    /\ \E m \in DOMAIN call.rows : call.rows[m].id \notin ReturnedArticles
    /\ \E i \in DOMAIN store :
          /\ \A m \in DOMAIN call.rows : call.rows[m].id # i
          /\ \E n \in DOMAIN call.result :
                FLess(call.result[n].viral_score, ScoreOf(i))

\* the place of a returned snippet's article among the rows fetched
FetchedAt(snip) == CHOOSE p \in DOMAIN call.rows : call.rows[p].id = ArticleOf(snip)

\* C20: two returned snippets of equal viral_score come in the order in which
\* the query returned their articles.
C20_StableTieBreak ==
    Searched =>
        \A n \in DOMAIN call.result : \A m \in DOMAIN call.result :
            (n < m /\ call.result[n].viral_score = call.result[m].viral_score)
            => FetchedAt(call.result[n]) < FetchedAt(call.result[m])

\* two snippets that tie, of articles fetched against the order of their ids,
\* behind a snippet the sort moved ahead of them
C20_Witness ==
    /\ Searched
    /\ \E n \in DOMAIN call.result : \E m \in DOMAIN call.result :
          /\ n < m
          /\ call.result[n].viral_score = call.result[m].viral_score
          /\ ArticleOf(call.result[n]) > ArticleOf(call.result[m])
          /\ store[ArticleOf(call.result[n])].embedding # None
          /\ store[ArticleOf(call.result[m])].embedding # None
          /\ \E h \in 1..(n - 1) : FetchedAt(call.result[h]) > FetchedAt(call.result[m])

(***************************************************************************)
(* recency_factor and similarity under test                                *)
(***************************************************************************)
MaxAgeDays == 200

\* published_date of the article under test: none, or from a day ahead of
\* the clock to MaxAgeDays behind it, tick by tick
ProbeDates ==
    {None} \cup {Some(Epoch - age) : age \in (0 - TicksPerDay)..(MaxAgeDays * TicksPerDay)}

InitProbe ==
    /\ store = <<>>
    /\ now = Epoch
    /\ call = Idle
    /\ jobs = <<>>
    /\ runs = <<>>
    /\ probe = NoProbe
    /\ InitElsewhere

\* art.recency_factor is read
ReadRecencyFactor ==
    /\ probe = NoProbe
    /\ \E pub \in ProbeDates :
          probe' = [fn |-> "recency_factor", published_date |-> pub, t |-> now,
                    out |-> recency_factor(pub, now)]
    /\ UNCHANGED <<store, now, call, jobs, runs>>
    /\ UNCHANGED <<generatorVars, socialVars, limiterVars>>

SpecRecency == InitProbe /\ [][ReadRecencyFactor]_vars

ProbedRecency == probe.fn = "recency_factor"

\* the age of the article under test, in ticks
ProbeAge == probe.t - probe.published_date[1]

\* C7 (as claimed): recency_factor is the step function of the exact age, every
\* boundary inclusive, for every age, whole days or not.
C7_StepOfExactAge ==
    ProbedRecency =>
        probe.out =
            IF probe.published_date = None THEN Float(5, 10)
            ELSE IF ProbeAge <= 7 * TicksPerDay THEN Float(1, 1)
            ELSE IF ProbeAge <= 30 * TicksPerDay THEN Float(8, 10)
            ELSE IF ProbeAge <= 90 * TicksPerDay THEN Float(6, 10)
            ELSE IF ProbeAge <= 180 * TicksPerDay THEN Float(4, 10)
            ELSE Float(2, 10)

\* C7 (amended): recency_factor is the step function of the age in whole
\* elapsed days: 1.0 up to (not including) 8 days, 0.8 up to 31 days, 0.6 up
\* to 91 days, 0.4 up to 181 days, then 0.2; 0.5 without a published_date.
C7_StepOfWholeDays ==
    ProbedRecency =>
        probe.out =
            IF probe.published_date = None THEN Float(5, 10)
            ELSE IF ProbeAge < 8 * TicksPerDay THEN Float(1, 1)
            ELSE IF ProbeAge < 31 * TicksPerDay THEN Float(8, 10)
            ELSE IF ProbeAge < 91 * TicksPerDay THEN Float(6, 10)
            ELSE IF ProbeAge < 181 * TicksPerDay THEN Float(4, 10)
            ELSE Float(2, 10)

\* an article between 7 and 8 days old
C7_Witness ==
    /\ ProbedRecency
    /\ probe.published_date # None
    /\ ProbeAge > 7 * TicksPerDay
    /\ ProbeAge < 8 * TicksPerDay
    /\ probe.out = Float(1, 1)

MaxSample == 6

\* distances under test: 0, thousandths, hundredths, units and thousands
SampleDistances ==
    {Float(n, d) : n \in 0..MaxSample, d \in {1, 100, 1000}}
    \cup {Float(1000 * n, 1) : n \in 1..MaxSample}

\* the similarity of two distances is computed
ComputeSimilarity ==
    /\ probe = NoProbe
    /\ \E d1 \in SampleDistances, d2 \in SampleDistances :
          probe' = [fn |-> "similarity", d1 |-> d1, d2 |-> d2,
                    s1 |-> similarity(d1), s2 |-> similarity(d2)]
    /\ UNCHANGED <<store, now, call, jobs, runs>>
    /\ UNCHANGED <<generatorVars, socialVars, limiterVars>>

SpecSimilarity == InitProbe /\ [][ComputeSimilarity]_vars

ProbedSimilarity == probe.fn = "similarity"

Zero == Float(0, 1)

\* C8 (as claimed): 0 < similarity <= 1, similarity(0) = 1, and a strictly
\* larger distance gives a strictly smaller similarity.
C8_StrictlyDecreasing ==
    ProbedSimilarity =>
        /\ FLess(Zero, probe.s1) /\ FLeq(probe.s1, One)
        /\ (probe.d1 = Zero => probe.s1 = One)
        /\ (FLess(probe.d1, probe.d2) => FLess(probe.s2, probe.s1))

\* C8 (amended): 0 < similarity <= 1, similarity(0) = 1, and a larger distance
\* never gives a larger similarity.
C8_NonIncreasing ==
    ProbedSimilarity =>
        /\ FLess(Zero, probe.s1) /\ FLeq(probe.s1, One)
        /\ (probe.d1 = Zero => probe.s1 = One)
        /\ (FLess(probe.d1, probe.d2) => FLeq(probe.s2, probe.s1))

\* two distinct distances whose similarities round to the same float
C8_Witness ==
    /\ ProbedSimilarity
    /\ FLess(probe.d1, probe.d2)
    /\ probe.s1 = probe.s2

(***************************************************************************)
(* Ingestion: the Celery task scrape_source                                *)
(***************************************************************************)
\* the keyword scrape_source passes: scraper.scrape(max_pages=max_pages)
ScrapeKeywords == {"max_pages"}

\* the parameters of scrape() of every scraper: scrape(self, topic=...)
ScrapeParameters == {"topic"}

\* the keys of the dicts the scrapers build
ScrapedKeys ==
    {"source", "title", "url", "snippet", "full_text", "published_date", "tags"}

\* the fields of TrendArticle
TrendArticleFields ==
    {"id", "source", "title", "url", "snippet", "full_text", "published_date",
     "scraped_at", "updated_at", "embedding"}

\* Python raises TypeError on a keyword the function has no parameter for
ScrapeCallRaises == ScrapeKeywords \ ScrapeParameters # {}

\* TrendArticle.objects.update_or_create(url=data['url'], defaults=data) at
\* time t: the row of that url is updated and saved (updated_at is auto_now);
\* without one, a row is created, unless a key of defaults is no field of the
\* model (FieldError)
update_or_create(st, data, t) ==
    LET hit == {i \in DOMAIN st : st[i].url = data.url}
    IN  IF hit # {}
        THEN LET i == CHOOSE j \in hit : TRUE
             IN  [raised |-> FALSE, created |-> FALSE, id |-> i,
                  store |-> [st EXCEPT ![i].source = data.source,
                                       ![i].title = data.title,
                                       ![i].snippet = data.snippet,
                                       ![i].full_text = data.full_text,
                                       ![i].published_date = data.published_date,
                                       ![i].updated_at = t]]
        ELSE IF ScrapedKeys \ TrendArticleFields # {}
        THEN [raised |-> TRUE, created |-> FALSE, id |-> 0, store |-> st]
        ELSE [raised |-> FALSE, created |-> TRUE, id |-> Len(st) + 1,
              store |-> Append(st, [url |-> data.url, source |-> data.source,
                                    title |-> data.title, snippet |-> data.snippet,
                                    full_text |-> data.full_text,
                                    published_date |-> data.published_date,
                                    updated_at |-> t,
                                    embedding |-> None])]

\* combined_text = f"{article.title}\n{article.snippet}\n{article.full_text[:1000]}"
\* (at most 500 + 503 + 1000 characters and two line breaks: text[:8000] of
\* generate_embedding keeps all of it)
combined_text(article) == <<article.title, article.snippet, article.full_text[1]>>

\* add_article without "if not embedding: return False" and without the except
\* clause's "return False"
add_article_unchecked(st, i, resp) ==
    LET embedding == generate_embedding(resp)
    IN  IF embedding.dim # StoreDim
        THEN [ok |-> TRUE, caught |-> "none", store |-> st]
        ELSE [ok |-> TRUE, caught |-> "none",
              store |-> [st EXCEPT ![i].embedding = Some(embedding)]]

\* TrendVectorStore.add_article(article), resp being the provider's answer for
\* combined_text: the value returned, the exception caught on the way, and
\* the table afterwards.  Saving a vector of another length than the column's
\* raises, which is caught; save(update_fields=['embedding']) writes the
\* column embedding and no other.
add_article(st, i, resp) ==
    LET embedding == generate_embedding(resp)
    IN  IF embedding_missing(embedding)
        THEN [ok |-> FALSE, caught |-> "none", store |-> st]
        ELSE IF embedding.dim # StoreDim
        THEN [ok |-> FALSE, caught |-> "save", store |-> st]
        ELSE [ok |-> TRUE, caught |-> "none",
              store |-> [st EXCEPT ![i].embedding = Some(embedding)]]

\* the body of "for data in articles_data" at time t, the provider being
\* embedder = [provider, api]: acc is [store, created, updated]
ingest_one(acc, data, embedder, t) ==
    LET r == update_or_create(acc.store, data, t)
    IN  IF r.raised THEN acc
        ELSE IF r.created
        THEN LET resp == get_embeddings(embedder.provider, embedder.api,
                                        combined_text(r.store[r.id]))
             IN  [store |-> add_article(r.store, r.id, resp).store,
                  created |-> acc.created + 1, updated |-> acc.updated]
        ELSE [store |-> r.store, created |-> acc.created,
              updated |-> acc.updated + 1]

RECURSIVE IngestLoop(_, _, _, _, _)
\* "for data in articles_data"
IngestLoop(acc, articles_data, embedder, t, n) ==
    IF n > Len(articles_data) THEN acc
    ELSE IngestLoop(ingest_one(acc, articles_data[n], embedder, t),
                    articles_data, embedder, t, n + 1)

\* scrape_source without the job update of its except clause
scrape_source_job_left_running(st, source, articles_data, embedder, t) ==
    [store |-> st,
     job |-> [source |-> source, status |-> "running", articles_scraped |-> 0,
              error_message |-> "", started_at |-> Some(t), completed_at |-> None],
     outcome |-> "raised"]

\* scrape_source recording the size of the table as articles_scraped
scrape_source_counts_table(st, source, articles_data, embedder, t) ==
    [store |-> st,
     job |-> [source |-> source, status |-> "failed", articles_scraped |-> Len(st),
              error_message |-> "TypeError", started_at |-> Some(t),
              completed_at |-> Some(t)],
     outcome |-> "raised"]

\* scrape_source(source), run at time t: articles_data is what scraper.scrape
\* has to return, embedder the embedding provider and what its API does.
\* TrendVectorStore has no save_index: calling it raises AttributeError.
scrape_source(st, source, articles_data, embedder, t) ==
    LET job == [source |-> source, status |-> "running", articles_scraped |-> 0,
                error_message |-> "", started_at |-> Some(t), completed_at |-> None]
        failed(msg) == [job EXCEPT !.status = "failed", !.error_message = msg,
                                   !.completed_at = Some(t)]
    IN  IF ScrapeCallRaises
        THEN [store |-> st, job |-> failed("TypeError"), outcome |-> "raised"]
        ELSE LET acc == IngestLoop([store |-> st, created |-> 0, updated |-> 0],
                                   articles_data, embedder, t, 1)
             IN  IF acc.created > 0
                 THEN [store |-> acc.store, job |-> failed("AttributeError"),
                       outcome |-> "raised"]
                 ELSE [store |-> acc.store,
                       job |-> [job EXCEPT !.status = "completed",
                                           !.articles_scraped = acc.created,
                                           !.completed_at = Some(t)],
                       outcome |-> "returned"]

MaxRuns == 2

MaxScraped == 2

MaxUrls == 2

MaxTitles == 2

\* one scraped article: the scrapers set published_date to the time of the run
Scraped(source, url, title, t) ==
    [source |-> source, url |-> url, title |-> title, snippet |-> title,
     full_text |-> <<title, title>>, published_date |-> Some(t)]

\* what a scraper's scrape() can return: up to MaxScraped articles
ScrapeResults(source, t) ==
    UNION {[1..n -> {Scraped(source, u, ti, t) : u \in 1..MaxUrls, ti \in 1..MaxTitles}] :
           n \in 0..MaxScraped}

\* the embedding provider of a run and what its API does during the run
Embedders == [provider : AI_PROVIDERS, api : ApiOutcomes]

\* the table before the first run: empty, or holding an article of url 1
InitIngest ==
    /\ store \in {<<>>, <<Article(1, None, None)>>}
    /\ now = Epoch
    /\ call = Idle
    /\ jobs = <<>>
    /\ runs = <<>>
    /\ probe = NoProbe
    /\ InitElsewhere

\* a worker runs the task scrape_source(source) to its end
ScrapeSource ==
    /\ Len(runs) < MaxRuns
    /\ \E n \in 1..3, embedder \in Embedders :
         \E articles_data \in ScrapeResults(Sources[n], now) :
            LET r == scrape_source(store, Sources[n], articles_data, embedder, now)
            IN  /\ store' = r.store
                /\ jobs' = Append(jobs, r.job)
                /\ runs' = Append(runs, [source |-> Sources[n],
                                         articles_data |-> articles_data,
                                         outcome |-> r.outcome])
    /\ UNCHANGED <<now, call, probe>>
    /\ UNCHANGED <<generatorVars, socialVars, limiterVars>>

SpecIngest == InitIngest /\ [][ScrapeSource]_vars

\* the titles the ended runs had to ingest for url u, in order
RECURSIVE TitlesIn(_, _)
TitlesIn(articles_data, u) ==
    IF articles_data = <<>> THEN <<>>
    ELSE (IF Head(articles_data).url = u THEN <<Head(articles_data).title>> ELSE <<>>)
         \o TitlesIn(Tail(articles_data), u)

RECURSIVE TitlesIngested(_, _)
TitlesIngested(rs, u) ==
    IF rs = <<>> THEN <<>>
    ELSE TitlesIn(Head(rs).articles_data, u) \o TitlesIngested(Tail(rs), u)

\* C10 (as claimed): once ingestion was given the same url twice with
\* different titles, in one run or in two, the table holds exactly one
\* article of that url, with the latest title.
C10_IdempotentUpsert ==
    \A u \in 1..MaxUrls :
        LET titles == TitlesIngested(runs, u)
        IN  (Len(titles) >= 2 /\ titles[Len(titles) - 1] # titles[Len(titles)]) =>
                /\ Cardinality({i \in DOMAIN store : store[i].url = u}) = 1
                /\ \A i \in DOMAIN store :
                      store[i].url = u => store[i].title = titles[Len(titles)]

(***************************************************************************)
(* The ScraperJob table under runs of scrape_source                        *)
(***************************************************************************)
MaxJobs == 2

MaxPages == 1

\* what a scraper's scrape() can return: up to MaxPages articles, each with
\* the title of its page
PagesScraped(source, t) ==
    UNION {[1..n -> {Scraped(source, u, u, t) : u \in 1..MaxUrls}] : n \in 0..MaxPages}

\* a worker runs the task scrape_source(source) to its end
ScrapeSourceRun ==
    /\ Len(jobs) < MaxJobs
    /\ \E n \in 1..3, embedder \in Embedders :
         \E articles_data \in PagesScraped(Sources[n], now) :
            LET r == scrape_source(store, Sources[n], articles_data, embedder, now)
            IN  /\ store' = r.store
                /\ jobs' = Append(jobs, r.job)
                /\ runs' = Append(runs, [source |-> Sources[n],
                                         articles_data |-> articles_data,
                                         outcome |-> r.outcome])
    /\ UNCHANGED <<now, call, probe>>
    /\ UNCHANGED <<generatorVars, socialVars, limiterVars>>

SpecJobs == InitIngest /\ [][ScrapeSourceRun]_vars

\* C24: every run of scrape_source that ended left its ScraperJob completed
\* or failed, with completed_at set: no job of an ended run is still running.
C24_JobEnds ==
    /\ Len(jobs) = Len(runs)
    /\ \A n \in DOMAIN jobs :
          /\ jobs[n].status \in {"completed", "failed"}
          /\ jobs[n].completed_at # None
          /\ jobs[n].started_at # None
          /\ (runs[n].outcome = "raised") => (jobs[n].status = "failed")

\* a run that raised, its job failed and closed
C24_Witness ==
    /\ runs # <<>>
    /\ runs[1].outcome = "raised"
    /\ jobs[1].status = "failed"
    /\ jobs[1].completed_at # None

FreshEmbedding(article) ==
    Some(Vec(StoreDim, TextPosition(combined_text(article))))

\* add_article_to_vectorstore(article_id): save_index, which TrendVectorStore
\* has not, raises AttributeError after the embedding was saved
add_article_to_vectorstore(st, article_id, embedder) ==
    IF article_id \notin DOMAIN st
    THEN [store |-> st, outcome |-> "returned", status |-> "not_found",
          add_article |-> "not called", embedding_dim |-> 0]
    ELSE LET resp == get_embeddings(embedder.provider, embedder.api,
                                    combined_text(st[article_id]))
             r == add_article(st, article_id, resp)
         IN  [store |-> r.store,
              outcome |-> IF r.ok THEN "raised" ELSE "returned",
              status |-> IF r.ok THEN "none" ELSE "failed",
              add_article |-> IF r.ok THEN "True" ELSE "False",
              embedding_dim |-> generate_embedding(resp).dim]

\* the table at the start: empty, or one article, without an embedding or
\* with the embedding of its text
InitArticles ==
    /\ store \in {<<>>, <<Article(1, None, None)>>,
                  <<[Article(1, None, None) EXCEPT
                        !.embedding = FreshEmbedding(Article(1, None, None))]>>}
    /\ now = Epoch
    /\ call = Idle
    /\ jobs = <<>>
    /\ runs = <<>>
    /\ probe = NoProbe
    /\ InitElsewhere

\* the body of the ingestion loop runs for one scraped article
IngestScraped ==
    /\ \E u \in 1..MaxUrls, ti \in 1..MaxTitles, embedder \in Embedders :
          LET acc == ingest_one([store |-> store, created |-> 0, updated |-> 0],
                                Scraped(Sources[(u % 3) + 1], u, ti, now),
                                embedder, now)
          IN  /\ store' = acc.store
              /\ runs' = <<[op |-> "ingest_one", t |-> now, url |-> u,
                            created |-> acc.created, updated |-> acc.updated]>>
    /\ UNCHANGED <<now, call, jobs, probe>>
    /\ UNCHANGED <<generatorVars, socialVars, limiterVars>>

\* a worker runs the task add_article_to_vectorstore(article_id) to its end
AddArticleToVectorstore ==
    /\ \E article_id \in 1..MaxUrls, embedder \in Embedders :
          LET r == add_article_to_vectorstore(store, article_id, embedder)
          IN  /\ store' = r.store
              /\ runs' = <<[op |-> "add_article_to_vectorstore",
                            t |-> now, article_id |-> article_id,
                            outcome |-> r.outcome, status |-> r.status,
                            add_article |-> r.add_article,
                            embedding_dim |-> r.embedding_dim]>>
    /\ UNCHANGED <<now, call, jobs, probe>>
    /\ UNCHANGED <<generatorVars, socialVars, limiterVars>>

NextArticles ==
    IngestScraped \/ AddArticleToVectorstore \/ GetTrendSnippets \/ Return \/ Tick

SpecArticles == InitArticles /\ [][NextArticles]_vars

\* C12 (as claimed): every article with an embedding has the embedding of its
\* present title, snippet and full_text prefix, whatever was ingested.
C12_EmbeddingFresh ==
    \A i \in DOMAIN store :
        store[i].embedding # None => store[i].embedding = FreshEmbedding(store[i])

\* C14 (as claimed): a provider vector of another length than the column's
\* surfaces as an error: add_article does not answer False, search does not
\* answer an empty list.
C14_MismatchSurfaces ==
    /\ \A n \in DOMAIN runs :
          (/\ runs[n].op = "add_article_to_vectorstore"
           /\ runs[n].embedding_dim \notin {0, StoreDim})
          => runs[n].add_article = "raised"
    /\ (Returned /\ call.query_embedding.dim \notin {0, StoreDim})
          => call.outcome = "raised"

\* C15: no step of a search, successful or failed, creates, deletes or
\* modifies an article: whenever the search call in progress changes, the
\* article table stays as it is.
C15_SearchReadOnly == [][(call' # call) => (store' = store)]_vars

\* a search that returned a snippet, after the table was written to and time
\* went by
C15_Witness ==
    /\ Returned
    /\ call.queried
    /\ call.result # <<>>
    /\ runs # <<>>
    /\ NumArticles > NumUnembedded
    /\ now > Epoch

\* C16 (as claimed): every step that changes a stored article leaves its
\* updated_at at the time of the step.
C16_UpdatedAtOnMutation ==
    [][\A i \in DOMAIN store :
          (i \in DOMAIN store' /\ store'[i] # store[i]) => store'[i].updated_at = now]_vars

\* the last write, when it was add_article_to_vectorstore reaching add_article
AddArticleCalled(r) ==
    /\ r # <<>>
    /\ r[1].op = "add_article_to_vectorstore"
    /\ r[1].add_article # "not called"

\* C21: add_article answers True exactly when the provider gave a non-empty
\* vector and it was saved as the article's embedding; on an empty vector or
\* a failed save it answers False, raises nothing and leaves every stored
\* embedding as it was.
C21_AddArticleReportsPersistence ==
    [][(runs' # runs /\ AddArticleCalled(runs')) =>
          LET r == runs'[1]
              i == r.article_id
          IN  /\ r.add_article \in {"True", "False"}
              /\ (r.add_article = "True") <=> (r.embedding_dim = StoreDim)
              /\ (r.add_article = "True") =>
                    /\ store'[i].embedding # None
                    /\ store'[i].embedding[1].dim = r.embedding_dim
                    /\ r.embedding_dim > 0
              /\ (r.add_article = "False") =>
                    /\ r.embedding_dim = 0 \/ r.embedding_dim # StoreDim
                    /\ \A j \in DOMAIN store : store'[j].embedding = store[j].embedding]_vars

\* add_article answered True and the article holds the saved vector
C21_Witness ==
    /\ AddArticleCalled(runs)
    /\ runs[1].add_article = "True"
    /\ store[runs[1].article_id].embedding =
          FreshEmbedding(store[runs[1].article_id])

(***************************************************************************)
(* generate_embedding under test                                           *)
(***************************************************************************)
MaxShortText == 4

MaxTextSlack == 5

\* a text of n characters, the characters being numbers below 10
TextOf(n) == [i \in 1..n |-> i % 10]

\* the texts under test: short ones, and ones of about SafeTextLimit characters
Texts ==
    {TextOf(n) : n \in 0..MaxShortText}
    \cup {TextOf(n) : n \in (SafeTextLimit - MaxTextSlack)..(SafeTextLimit + MaxTextSlack)}

\* generate_embedding(text) is called
GenerateEmbedding ==
    /\ probe = NoProbe
    /\ \E text \in Texts, provider \in AI_PROVIDERS, api \in ApiOutcomes :
          probe' = [fn |-> "generate_embedding",
                    run |-> generate_embedding_call(text, provider, api)]
    /\ UNCHANGED <<store, now, call, jobs, runs>>
    /\ UNCHANGED <<generatorVars, socialVars, limiterVars>>

SpecEmbedding == InitProbe /\ [][GenerateEmbedding]_vars

ProbedEmbedding == probe.fn = "generate_embedding"

\* C13: generate_embedding never raises: with either provider, when the
\* remote API fails or answers without a vector, the call returns the empty
\* list; in every case it returns a list.
C13_GenerateEmbeddingNeverRaises ==
    ProbedEmbedding =>
        /\ probe.run.outcome = "returned"
        /\ probe.run.value.dim >= 0
        /\ (probe.run.api \in {"error", "empty"} => probe.run.value = EmptyVec)

\* the Gemini branch, whose wrapper re-raises, with a failing API
C13_Witness ==
    /\ ProbedEmbedding
    /\ probe.run.provider = "gemini"
    /\ probe.run.api = "error"
    /\ probe.run.text # <<>>

\* C17: the text sent to the provider is the first SafeTextLimit characters
\* of the input, in their order, and the whole input when it is shorter.
C17_PrefixTruncation ==
    ProbedEmbedding =>
        /\ Len(probe.run.sent) = Min(SafeTextLimit, Len(probe.run.text))
        /\ \A i \in 1..Len(probe.run.sent) : probe.run.sent[i] = probe.run.text[i]

\* a text longer than the limit
C17_Witness ==
    /\ ProbedEmbedding
    /\ Len(probe.run.text) > SafeTextLimit
    /\ Len(probe.run.sent) = SafeTextLimit

(***************************************************************************)
(* Content generation: the Celery task generate_content_async              *)
(***************************************************************************)
\* the keywords generate_content_async passes to ai_wrapper.generate_content
GenerateKeywords ==
    {"extracted_text", "trend_snippets", "platforms", "brand_voice"}

\* the parameters of ai_wrapper.generate_content
GenerateParameters == {"extracted_text", "trend_snippets", "platforms"}

\* Python raises TypeError on a keyword the function has no parameter for
GenerateCallRaises == GenerateKeywords \ GenerateParameters # {}

\* the UploadedFile rows, by id: one with a detected topic, one without
UploadedFiles == <<[detected_topic |-> "ai"], [detected_topic |-> ""]>>

\* the users, by id: one with a brand voice in the profile, one without
Users == <<[brand_voice |-> "bold"], [brand_voice |-> ""]>>

\* topic = uploaded_file.detected_topic or "marketing trends"
topic_of(uploaded_file) ==
    IF uploaded_file.detected_topic # "" THEN uploaded_file.detected_topic
    ELSE "marketing trends"

\* what the provider behind generate_content does when it is called
LlmOutcomes == {"content", "error"}

\* a task that reads the first trend before it generates
generate_content_async_first_trend(cont, uploaded_file_id, user_id, trend_snippets, llm) ==
    IF uploaded_file_id \notin DOMAIN UploadedFiles
    THEN [outcome |-> "returned", generator_called |-> FALSE, contents |-> cont,
          result |-> [status |-> "failed", error |-> "Uploaded file not found"]]
    ELSE IF trend_snippets = <<>>
    THEN [outcome |-> "returned", generator_called |-> FALSE, contents |-> cont,
          result |-> [status |-> "failed", error |-> "IndexError"]]
    ELSE [outcome |-> "returned", generator_called |-> TRUE, contents |-> cont,
          result |-> [status |-> "failed", error |-> "TypeError"]]

\* generate_content_async(uploaded_file_id, platforms, trend_count, user_id),
\* trend_snippets being what get_trend_snippets(topic, k=trend_count) returned
\* and cont the GeneratedContent table: the table afterwards and the dict
\* returned.  user_id 0 is None.  Every exception of the body is caught and
\* answered with {'status': 'failed', 'error': str(e)}.
generate_content_async(cont, uploaded_file_id, user_id, trend_snippets, llm) ==
    LET failed(called, e) ==
            [outcome |-> "returned", generator_called |-> called, contents |-> cont,
             result |-> [status |-> "failed", error |-> e]]
        brand_voice == IF user_id \in DOMAIN Users THEN Users[user_id].brand_voice
                       ELSE ""
        trends_used == [n \in 1..Min(5, Len(trend_snippets)) |->
                           [title |-> trend_snippets[n].title,
                            source |-> trend_snippets[n].source]]
    IN  IF uploaded_file_id \notin DOMAIN UploadedFiles
        THEN failed(FALSE, "Uploaded file not found")
        ELSE IF GenerateCallRaises THEN failed(TRUE, "TypeError")
        ELSE IF llm = "error" THEN failed(TRUE, "provider")
        ELSE [outcome |-> "returned", generator_called |-> TRUE,
              contents |-> Append(cont, [uploaded_file |-> uploaded_file_id,
                                         user |-> user_id,
                                         brand_voice |-> brand_voice,
                                         trends_used |-> trends_used]),
              result |-> [status |-> "completed", error |-> ""]]

\* a trend store of at most one article, and no generated content
InitGenerate ==
    /\ store \in {st \in Stores : Len(st) <= 1}
    /\ now = Epoch
    /\ call = Idle
    /\ jobs = <<>>
    /\ runs = <<>>
    /\ probe = NoProbe
    /\ InitElsewhere

\* a worker runs the task generate_content_async to its end
GenerateContentAsync ==
    /\ probe = NoProbe
    /\ \E uploaded_file_id \in 1..(Len(UploadedFiles) + 1),
          user_id \in 0..(Len(Users) + 1),
          resp \in ProviderResponses, trend_count \in Ks, llm \in LlmOutcomes :
         LET q == generate_embedding(resp)
         IN  \E db \in (IF q.dim = 0 THEN {DbError} ELSE DbAnswers(store, q, trend_count)) :
               LET trend_snippets ==
                       IF uploaded_file_id \in DOMAIN UploadedFiles
                       THEN get_trend_snippets(store, now, resp, trend_count, db).result
                       ELSE <<>>
                   r == generate_content_async(contents, uploaded_file_id, user_id,
                                               trend_snippets, llm)
               IN  /\ contents' = r.contents
                   /\ probe' = [fn |-> "generate_content_async",
                                uploaded_file_id |-> uploaded_file_id,
                                user_id |-> user_id, llm |-> llm,
                                topic |-> IF uploaded_file_id \in DOMAIN UploadedFiles
                                          THEN topic_of(UploadedFiles[uploaded_file_id])
                                          ELSE "",
                                before |-> contents,
                                searched |-> uploaded_file_id \in DOMAIN UploadedFiles,
                                trend_snippets |-> trend_snippets,
                                run |-> r]
    /\ UNCHANGED <<store, now, call, jobs, runs>>
    /\ UNCHANGED <<socialVars, limiterVars>>

SpecGenerate == InitGenerate /\ [][GenerateContentAsync]_vars

Generated == probe.fn = "generate_content_async"

\* one trend snippet, as search builds them
OneSnippet ==
    <<Scored(Article(1, At(10), Today), Float(3, 10), Epoch)>>

STATUS_CHOICES == {"draft", "pending", "published", "failed", "cancelled"}

\* @shared_task(bind=True, max_retries=3, default_retry_delay=300)
max_retries == 3

\* the columns of ScheduledPost
ScheduledPostFields ==
    {"id", "user", "social_account", "content_text", "content_html", "images",
     "video_url", "link_url", "link_preview", "scheduled_time", "timezone",
     "is_optimal_time", "status", "platform_post_id", "platform_post_url",
     "error_message", "retry_count", "published_at", "celery_task_id",
     "engagement_data", "last_analytics_fetch", "generated_content_id",
     "metadata", "created_at", "updated_at"}

\* "elif post.image_urls and ...": reading an attribute the model has not
\* raises AttributeError
ImageUrlsRaises == "image_urls" \notin ScheduledPostFields

\* the fields of PublishedPostAnalytics
PublishedPostAnalyticsFields ==
    {"id", "scheduled_post", "likes_count", "comments_count", "shares_count",
     "retweets_count", "saves_count", "impressions", "reach", "clicks",
     "engagement_rate", "ctr", "audience_data", "first_fetch_at", "last_fetch_at"}

\* PublishedPostAnalytics.objects.create(post=post): a keyword that is no
\* field raises TypeError
AnalyticsCreateRaises == {"post"} \ PublishedPostAnalyticsFields # {}

MaxTasks == 2

MaxWorkers == 1

MaxCalls == 5

MaxSends == 2

\* the one post under test
ThePost == 1

\* the task ids .delay() hands out
TaskIds == 1..MaxTasks

\* a task message on the broker: request.id and request.retries (a retry
\* keeps the id of the task it retries)
Message(id, retries) == [id |-> id, retries |-> retries]

\* a ScheduledPost row; celery_task_id and platform_post_id 0 are NULL, and
\* video_url is whether the post has one
ScheduledPost(status, video_url, celery_task_id) ==
    [status |-> status, video_url |-> video_url,
     celery_task_id |-> celery_task_id, platform_post_id |-> 0,
     error_message |-> ""]

\* task.apply_async: the message is appended to the broker's list
Enqueue(c, m) == [c EXCEPT !.queue = Append(@, m)]

\* self.retry(exc=e) of a task run with request = m: below max_retries the
\* retry is sent to the broker before Retry is raised; at max_retries the
\* original exception is raised and nothing is sent
retry(c, m) ==
    IF m.retries < max_retries THEN Enqueue(c, Message(m.id, m.retries + 1))
    ELSE c

WorkerIdle == [pc |-> "idle"]

NoCall == [calls |-> 0, ok |-> 0]

RECURSIVE SumOk(_, _)
SumOk(log, n) == IF n = 0 THEN 0 ELSE log[n].ok + SumOk(log, n - 1)

\* how often a platform publisher took the post
TimesPublished(log) == SumOk(log, MaxTasks)

\* a post made in the admin as a draft or as pending, with or without a
\* video, or made and queued by the view direct_post (pending, no video)
InitSocial ==
    /\ store = <<>>
    /\ now = Epoch
    /\ call = Idle
    /\ jobs = <<>>
    /\ runs = <<>>
    /\ probe = NoProbe
    /\ contents = <<>>
    /\ cache = <<>>
    /\ reqs = <<>>
    /\ admitted = <<>>
    /\ time = 0
    /\ \E status \in {"draft", "pending"}, video_url \in BOOLEAN, queued \in BOOLEAN :
          /\ queued => (status = "pending" /\ ~video_url)
          /\ posts = <<ScheduledPost(status, video_url, IF queued THEN 1 ELSE 0)>>
          /\ celery = [queue |-> IF queued THEN <<Message(1, 0)>> ELSE <<>>,
                       revoked |-> {},
                       next_id |-> IF queued THEN 2 ELSE 1]
    /\ procs = [workers |-> [w \in 1..MaxWorkers |-> WorkerIdle],
                beat |-> [pc |-> "idle"],
                cancel |-> [pc |-> "idle"]]
    /\ sent = [id \in TaskIds |-> NoCall]

\* check_and_publish_due_posts, first part: the query for pending posts that
\* are due and, for the post found, publish_scheduled_post.delay(post.id)
CheckDuePostsQueue ==
    /\ procs.beat.pc = "idle"
    /\ celery.next_id <= MaxTasks
    /\ posts[ThePost].status = "pending"
    /\ procs' = [procs EXCEPT !.beat = [pc |-> "save", post |-> posts[ThePost],
                                        task_id |-> celery.next_id]]
    /\ celery' = [Enqueue(celery, Message(celery.next_id, 0))
                    EXCEPT !.next_id = @ + 1]
    /\ UNCHANGED <<posts, sent>>
    /\ UNCHANGED <<trendVars, generatorVars, limiterVars>>

\* check_and_publish_due_posts, second part: post.celery_task_id = task.id;
\* post.save()
CheckDuePostsSave ==
    /\ procs.beat.pc = "save"
    /\ posts' = [posts EXCEPT ![ThePost] =
                    [procs.beat.post EXCEPT !.celery_task_id = procs.beat.task_id]]
    /\ procs' = [procs EXCEPT !.beat = [pc |-> "idle"]]
    /\ UNCHANGED <<celery, sent>>
    /\ UNCHANGED <<trendVars, generatorVars, limiterVars>>

\* a worker takes the oldest message from the broker; a task whose id was
\* revoked is discarded
TaskStart(w) ==
    /\ procs.workers[w].pc = "idle"
    /\ celery.queue # <<>>
    /\ celery' = [celery EXCEPT !.queue = Tail(@)]
    /\ procs' = [procs EXCEPT !.workers[w] =
                    IF Head(celery.queue).id \in celery.revoked THEN WorkerIdle
                    ELSE [pc |-> "get", request |-> Head(celery.queue)]]
    /\ UNCHANGED <<posts, sent>>
    /\ UNCHANGED <<trendVars, generatorVars, limiterVars>>

\* post = ScheduledPost.objects...get(id=post_id); a post that is published
\* or cancelled is skipped
TaskGet(w) ==
    /\ procs.workers[w].pc = "get"
    /\ procs' = [procs EXCEPT !.workers[w] =
                    IF posts[ThePost].status \in {"published", "cancelled"}
                    THEN WorkerIdle
                    ELSE [@ EXCEPT !.pc = "mark"] @@ [post |-> posts[ThePost]]]
    /\ UNCHANGED <<posts, celery, sent>>
    /\ UNCHANGED <<trendVars, generatorVars, limiterVars>>

\* post.status = 'publishing'; post.save(); then the choice of the media:
\* without a video_url the task reads post.image_urls
TaskMarkPublishing(w) ==
    /\ procs.workers[w].pc = "mark"
    /\ LET post == [procs.workers[w].post EXCEPT !.status = "publishing"]
       IN  /\ posts' = [posts EXCEPT ![ThePost] = post]
           /\ procs' = [procs EXCEPT !.workers[w] =
                           [@ EXCEPT !.post = post,
                                     !.pc = IF post.video_url THEN "publish"
                                            ELSE IF ImageUrlsRaises THEN "except"
                                            ELSE "publish"]]
    /\ UNCHANGED <<celery, sent>>
    /\ UNCHANGED <<trendVars, generatorVars, limiterVars>>

\* publisher.publish_with_video(...): the platform takes the post, or the
\* publisher raises PublishError
TaskPublish(w) ==
    /\ procs.workers[w].pc = "publish"
    /\ sent[procs.workers[w].request.id].calls < MaxCalls
    /\ \E outcome \in {"ok", "PublishError"} :
          /\ (outcome = "ok") => (TimesPublished(sent) < MaxSends)
          /\ sent' = [sent EXCEPT ![procs.workers[w].request.id] =
                         [calls |-> @.calls + 1,
                          ok |-> @.ok + (IF outcome = "ok" THEN 1 ELSE 0)]]
          /\ procs' = [procs EXCEPT !.workers[w].pc =
                          IF outcome = "ok" THEN "published" ELSE "publish_error"]
    /\ UNCHANGED <<posts, celery>>
    /\ UNCHANGED <<trendVars, generatorVars, limiterVars>>

\* BasePublisher.update_post_status(post, status, error_message,
\* platform_post_id): the copy of the row is changed and saved
update_post_status(post, status, error_message, platform_post_id) ==
    [post EXCEPT !.status = status,
                 !.error_message = IF error_message # "" THEN error_message ELSE @,
                 !.platform_post_id = IF platform_post_id # 0 THEN platform_post_id ELSE @]

\* after a successful publish: update_post_status(post, 'published', ...),
\* then PublishedPostAnalytics.objects.create(post=post)
TaskUpdatePublished(w) ==
    /\ procs.workers[w].pc = "published"
    /\ LET post == update_post_status(procs.workers[w].post, "published", "", 1)
       IN  /\ posts' = [posts EXCEPT ![ThePost] = post]
           /\ procs' = [procs EXCEPT !.workers[w] =
                           IF AnalyticsCreateRaises
                           THEN [@ EXCEPT !.post = post, !.pc = "except"]
                           ELSE WorkerIdle]
    /\ UNCHANGED <<celery, sent>>
    /\ UNCHANGED <<trendVars, generatorVars, limiterVars>>

\* "except PublishError": update_post_status(post, 'failed', ...), then
\* "raise self.retry(exc=e)" or "raise"; either exception is raised inside
\* the outer try block
TaskUpdateFailed(w) ==
    /\ procs.workers[w].pc = "publish_error"
    /\ LET post == update_post_status(procs.workers[w].post, "failed",
                                      "PublishError", 0)
       IN  /\ posts' = [posts EXCEPT ![ThePost] = post]
           /\ procs' = [procs EXCEPT !.workers[w] =
                           [@ EXCEPT !.post = post, !.pc = "except"]]
    /\ celery' = retry(celery, procs.workers[w].request)
    /\ UNCHANGED sent
    /\ UNCHANGED <<trendVars, generatorVars, limiterVars>>

\* the outer "except Exception": the post is read again, set to 'failed' and
\* saved, then "raise self.retry(exc=e)" or "raise" ends the task
TaskExcept(w) ==
    /\ procs.workers[w].pc = "except"
    /\ posts' = [posts EXCEPT ![ThePost].status = "failed",
                              ![ThePost].error_message = "Unexpected error"]
    /\ celery' = retry(celery, procs.workers[w].request)
    /\ procs' = [procs EXCEPT !.workers[w] = WorkerIdle]
    /\ UNCHANGED sent
    /\ UNCHANGED <<trendVars, generatorVars, limiterVars>>

\* AsyncResult(post.celery_task_id).revoke(terminate=True) reaches the worker
\* that is running the task: the task is killed where it is
Terminate(w) ==
    /\ procs.workers[w].pc \notin {"idle"}
    /\ procs.workers[w].request.id \in celery.revoked
    /\ procs' = [procs EXCEPT !.workers[w] = WorkerIdle]
    /\ UNCHANGED <<posts, celery, sent>>
    /\ UNCHANGED <<trendVars, generatorVars, limiterVars>>

\* cancel_scheduled_post, first part: the post is read and the task whose id
\* it holds is revoked
CancelGet ==
    /\ procs.cancel.pc = "idle"
    /\ procs' = [procs EXCEPT !.cancel = [pc |-> "save", post |-> posts[ThePost]]]
    /\ celery' = [celery EXCEPT !.revoked =
                     IF posts[ThePost].celery_task_id # 0
                     THEN @ \cup {posts[ThePost].celery_task_id} ELSE @]
    /\ UNCHANGED <<posts, sent>>
    /\ UNCHANGED <<trendVars, generatorVars, limiterVars>>

\* cancel_scheduled_post, second part: post.status = 'cancelled'; post.save()
CancelSave ==
    /\ procs.cancel.pc = "save"
    /\ posts' = [posts EXCEPT ![ThePost] =
                    [procs.cancel.post EXCEPT !.status = "cancelled"]]
    /\ procs' = [procs EXCEPT !.cancel = [pc |-> "done"]]
    /\ UNCHANGED <<celery, sent>>
    /\ UNCHANGED <<trendVars, generatorVars, limiterVars>>

NextSocial ==
    \/ CheckDuePostsQueue
    \/ CheckDuePostsSave
    \/ CancelGet
    \/ CancelSave
    \/ \E w \in 1..MaxWorkers :
          \/ TaskStart(w)
          \/ TaskGet(w)
          \/ TaskMarkPublishing(w)
          \/ TaskPublish(w)
          \/ TaskUpdatePublished(w)
          \/ TaskUpdateFailed(w)
          \/ TaskExcept(w)
          \/ Terminate(w)

SpecSocial == InitSocial /\ [][NextSocial]_vars

\* C26 (as claimed): a ScheduledPost is sent to its platform successfully at
\* most once, whatever the runs of check_and_publish_due_posts, the tasks they
\* queue and the retries do.
C26_PublishedAtMostOnce == TimesPublished(sent) <= 1

C28_CancelledStays ==
    [][(/\ procs.cancel.pc = "done"
        /\ posts[ThePost].status = "cancelled"
        /\ procs'.workers # procs.workers) =>
          /\ posts'[ThePost].status = "cancelled"
          /\ TimesPublished(sent') = TimesPublished(sent)]_vars

\* C29 (as claimed): the status of a ScheduledPost is always one of
\* STATUS_CHOICES.
C29_StatusDeclared == posts[ThePost].status \in STATUS_CHOICES

(***************************************************************************)
(* RateLimitMiddleware: check_rate_limit_sync and check_rate_limit_async   *)
(* do the same three steps (read the list of request times from the cache, *)
(* test and append, write the list back), in threads or coroutines that    *)
(* run side by side.  The list is kept as the number of entries per time,  *)
(* its order being of no effect.                                           *)
(***************************************************************************)
\* self.rate_limits: (requests, time_window_seconds)
rate_limits ==
    [default |-> <<100, 60>>, auth |-> <<5, 300>>, upload |-> <<10, 60>>,
     generate |-> <<20, 60>>]

LimitKeys == DOMAIN rate_limits

max_requests(limit_key) == rate_limits[limit_key][1]

time_window(limit_key) == rate_limits[limit_key][2]

\* the kinds of request.path: the markers should_skip and get_limit_key look
\* for, that the path contains
Paths ==
    {{"/admin/"}, {"/static/"}, {"/auth/"}, {"/login/", "/generate"},
     {"/upload/"}, {"/extract/", "/generate"}, {"/generate"}, {}}

\* request.path.startswith('/admin/') or request.path.startswith('/static/')
should_skip(path) == "/admin/" \in path \/ "/static/" \in path

get_limit_key(path) ==
    IF "/auth/" \in path \/ "/login/" \in path \/ "/register/" \in path THEN "auth"
    ELSE IF "/extract/" \in path \/ "/upload/" \in path THEN "upload"
    ELSE IF "/generate" \in path THEN "generate"
    ELSE "default"

\* seconds between two readings of the clock
TickSeconds == 30

MaxTicks == 2

MaxRequests == 3

MaxConcurrent == 2

MaxHeadroom == 1

\* the values of int(time.time())
Times == {n * TickSeconds : n \in 0..MaxTicks}

\* the empty list of request times
NoTimes == [t \in Times |-> 0]

RECURSIVE CountFrom(_, _, _)
\* the entries of request_times at the times from..to
CountFrom(request_times, from, to) ==
    IF from > to THEN 0
    ELSE (IF from \in Times THEN request_times[from] ELSE 0)
         + CountFrom(request_times, from + TickSeconds, to)

\* len(request_times)
len(request_times) == CountFrom(request_times, 0, MaxTicks * TickSeconds)

\* [t for t in request_times if current_time - t < time_window]
recent(request_times, current_time, window) ==
    [t \in Times |-> IF current_time - t < window THEN request_times[t] ELSE 0]

\* cache.get(cache_key, []) at time t: an entry past its timeout is gone
cache_get(c, limit_key, t) ==
    IF t < c[limit_key].expires THEN c[limit_key].request_times ELSE NoTimes

\* "if len(request_times) >= max_requests: return False"
allowed(request_times, limit_key) == len(request_times) < max_requests(limit_key)

RequestIdle == [pc |-> "idle"]

\* one client IP; on each limit key it has sent either nothing yet or, in
\* this second, all but MaxHeadroom of the requests it is allowed
InitLimiter ==
    /\ store = <<>>
    /\ now = Epoch
    /\ call = Idle
    /\ jobs = <<>>
    /\ runs = <<>>
    /\ probe = NoProbe
    /\ contents = <<>>
    /\ posts = <<>>
    /\ celery = <<>>
    /\ procs = <<>>
    /\ sent = <<>>
    /\ time = 0
    /\ \E busy \in SUBSET LimitKeys :
          LET before == [k \in LimitKeys |->
                            IF k \in busy
                            THEN [NoTimes EXCEPT ![0] = max_requests(k) - MaxHeadroom]
                            ELSE NoTimes]
          IN  /\ cache = [k \in LimitKeys |->
                             [request_times |-> before[k],
                              expires |-> IF k \in busy THEN time_window(k) ELSE 0]]
              /\ admitted = before
    /\ reqs = [handlers |-> [h \in 1..MaxConcurrent |-> RequestIdle],
               received |-> 0, skipped |-> 0, rejected |-> 0]

\* __call__ up to the test: should_skip, get_limit_key, and in
\* check_rate_limit_* the reading of the clock and of the cache and the test
\* of the length; a request over the limit is answered with 429
Receive(h) ==
    /\ reqs.handlers[h].pc = "idle"
    /\ reqs.received < MaxRequests
    /\ \E path \in Paths :
          LET limit_key == get_limit_key(path)
              request_times == recent(cache_get(cache, limit_key, time), time,
                                      time_window(limit_key))
          IN  IF should_skip(path)
              THEN /\ reqs' = [reqs EXCEPT !.received = @ + 1, !.skipped = @ + 1]
                   /\ UNCHANGED admitted
              ELSE IF ~allowed(request_times, limit_key)
              THEN /\ reqs' = [reqs EXCEPT !.received = @ + 1, !.rejected = @ + 1]
                   /\ UNCHANGED admitted
              ELSE /\ reqs' = [reqs EXCEPT !.received = @ + 1,
                                           !.handlers[h] =
                                              [pc |-> "set", limit_key |-> limit_key,
                                               current_time |-> time,
                                               request_times |->
                                                  [request_times EXCEPT ![time] = @ + 1]]]
                   /\ UNCHANGED admitted
    /\ UNCHANGED <<cache, time>>
    /\ UNCHANGED <<trendVars, generatorVars, socialVars>>

\* cache.set(cache_key, request_times, time_window); return True; and the
\* request is passed on: self.get_response(request)
SetAndPass(h) ==
    /\ reqs.handlers[h].pc = "set"
    /\ LET r == reqs.handlers[h]
       IN  /\ cache' = [cache EXCEPT ![r.limit_key] =
                           [request_times |-> r.request_times,
                            expires |-> time + time_window(r.limit_key)]]
           /\ admitted' = [admitted EXCEPT ![r.limit_key][r.current_time] = @ + 1]
    /\ reqs' = [reqs EXCEPT !.handlers[h] = RequestIdle]
    /\ UNCHANGED time
    /\ UNCHANGED <<trendVars, generatorVars, socialVars>>

\* time.time() moves on
TickSecondsPass ==
    /\ time < MaxTicks * TickSeconds
    /\ time' = time + TickSeconds
    /\ UNCHANGED <<cache, reqs, admitted>>
    /\ UNCHANGED <<trendVars, generatorVars, socialVars>>

NextLimiter ==
    \/ TickSecondsPass
    \/ \E h \in 1..MaxConcurrent : Receive(h) \/ SetAndPass(h)

SpecLimiter == InitLimiter /\ [][NextLimiter]_vars

\* C30 (as claimed): of the requests of the client for one limit key, at most
\* max_requests that were received within any time_window seconds are passed
\* to the view, also when requests are handled side by side.
C30_AtMostMaxRequests ==
    \A k \in LimitKeys, s \in Times :
        CountFrom(admitted[k], s, s + time_window(k) - 1) <= max_requests(k)
====
